---- MODULE Spec2Model ----
(***************************************************************************)
(* Zone chart builder of the climate analyzer front end: buildZoneChart   *)
(* of pages/History.tsx groups the sensor series by zone, aligns their    *)
(* readings on the union of the timestamps, averages each zone per        *)
(* timestamp, sorts the points, decimates them to at most 500 and emits   *)
(* one chart line per zone.  The module also holds the buildZoneChart of   *)
(* pages/Dashboard.tsx, buildHvacTimeline, the refreshes of the Dashboard  *)
(* page, and the History page with its fetches and its DateRangeBar.       *)
(*                                                                         *)
(* Representation.                                                         *)
(*  - null / undefined is Null (the empty tuple), a present value x is    *)
(*    Some(x) (a one-element tuple).                                       *)
(*  - A timestamp is an ISO-8601 string; all timestamps of one response   *)
(*    share one format, so their collation order is their chronological   *)
(*    order.  A timestamp is modelled by the number of hours since the    *)
(*    epoch it denotes, and localeCompare by the comparison of these.     *)
(*  - A reading value v stands for v/4 degrees (quarter degrees are exact *)
(*    binary fractions, so the double arithmetic of the code is exact on  *)
(*    them); a zone value of a point is held in tenths of a degree, the   *)
(*    integer Math.round produces before the final division by 10.        *)
(*  - A reading value may also be given as a double, Double(hi, lo), and  *)
(*    is then taken through IEEE-754 arithmetic.                          *)
(***************************************************************************)
EXTENDS Integers, Sequences, FiniteSets, TLC

VARIABLES sensors, zoneNameMap, hours, pc, sortedPoints, chartPoints, chartLines,
          history,
          started, pending, settled, data, chartData, forecast, loading,
          range, effectDeps, pageReadings, historyLoading, fetches, inFlight, fetchLog,
          customOpen, startVal, endVal, lastReport, timeZone,
          hvacTimeline, dashboardPoints, dashboardLines

vars == <<sensors, zoneNameMap, hours, pc, sortedPoints, chartPoints, chartLines,
          history,
          started, pending, settled, data, chartData, forecast, loading,
          range, effectDeps, pageReadings, historyLoading, fetches, inFlight, fetchLog,
          customOpen, startVal, endVal, lastReport, timeZone,
          hvacTimeline, dashboardPoints, dashboardLines>>

(* The state of the Dashboard page and of its refreshes *)
pageVars == <<started, pending, settled, data, chartData, forecast, loading>>

(* The arguments, the results and the record of the calls of buildZoneChart *)
chartVars == <<sensors, zoneNameMap, hours, pc, sortedPoints, chartPoints, chartLines,
               history>>

(* The state of the History page, of its fetches, of its DateRangeBar and  *)
(* the time zone of the host                                               *)
historyVars == <<range, effectDeps, pageReadings, historyLoading, fetches, inFlight,
                 fetchLog, customOpen, startVal, endVal, lastReport, timeZone>>

(* The results of buildHvacTimeline and of the buildZoneChart of the       *)
(* Dashboard page                                                          *)
builtVars == <<hvacTimeline, dashboardPoints, dashboardLines>>

----------------------------------------------------------------------------
(* Bounds of the model *)

MaxSensors == 2
MaxReadings == 2
MaxTs == 2
MaxBig == 1200
MaxCalls == 3
MaxHours == 170
MaxRefreshes == 3
MaxFetches == 3
MaxActions == 8

(* The cap on the number of chart points *)
MaxPoints == 500

----------------------------------------------------------------------------
(* Values *)

Null == <<>>
Some(x) == <<x>>

Values == {0, 3}
ValueSet == {Null} \cup {Some(v) : v \in Values}
Zones == {1, 2}
ZoneIdSet == {Null} \cup {Some(z) : z \in Zones}
ColorSet == {Null, Some(""), Some("#ef4444"), Some("#22c55e")}
ReadingSet == [timestamp : 1..MaxTs, value : ValueSet]

(* Forces a lazily defined sequence or function into an explicit one *)
AsSeq(s) == s \o <<>>
AsFcn(f) == f @@ <<>>

Indices(n) == AsSeq([i \in 1..n |-> i])
Pick(s, idx) == AsSeq([k \in 1..Len(idx) |-> s[idx[k]]])

----------------------------------------------------------------------------
(* formatTimestamp: the label of a timestamp under the requested span *)

(* Variant: the boundaries 24 and 168 go to the longer format *)
formatTimestampBelow(ts, h) ==
  IF h < 24 THEN <<"HH:MM", ts % 24>>
  ELSE IF h < 168 THEN <<"weekday HH:MM", (ts \div 24) % 7, ts % 24>>
  ELSE <<"month day", ts \div 24>>

formatTimestamp(ts, h) ==
  IF h <= 24 THEN <<"HH:MM", ts % 24>>
  ELSE IF h <= 168 THEN <<"weekday HH:MM", (ts \div 24) % 7, ts % 24>>
  ELSE <<"month day", ts \div 24>>

----------------------------------------------------------------------------
(* Grouping by zone: zoneMap is a Map in insertion order, held as the      *)
(* sequence of its keys and the function from key to group                 *)

DefaultColor == "#38bdf8"

GroupColor(sensor) ==
  IF sensor.zone_color = Null \/ sensor.zone_color = Some("")
  THEN DefaultColor
  ELSE sensor.zone_color[1]

NewGroup(sensor) ==
  [sensors |-> <<>>, color |-> GroupColor(sensor), isOutdoor |-> sensor.is_outdoor]

(* Variant: the flag of the sensor that created the group is never revised *)
GroupOutdoorOfFirst(group, sensor) == group.isOutdoor

GroupOutdoor(group, sensor) ==
  IF sensor.is_outdoor THEN TRUE ELSE group.isOutdoor

PushSensor(group, sensor) ==
  [sensors |-> Append(group.sensors, sensor),
   color |-> group.color,
   isOutdoor |-> GroupOutdoor(group, sensor)]

EnsureGroup(m, sensor) ==
  IF sensor.zone_id[1] \in DOMAIN m.get
  THEN m
  ELSE [keys |-> Append(m.keys, sensor.zone_id[1]),
        get |-> (sensor.zone_id[1] :> NewGroup(sensor)) @@ m.get]

UpdateGroup(m, sensor) ==
  [keys |-> m.keys,
   get |-> [z \in DOMAIN m.get |->
              IF z = sensor.zone_id[1] THEN PushSensor(m.get[z], sensor) ELSE m.get[z]]]

AddSensor(m, sensor) ==
  IF sensor.zone_id = Null THEN m ELSE UpdateGroup(EnsureGroup(m, sensor), sensor)

RECURSIVE zoneMapLoop(_, _, _)
zoneMapLoop(ss, i, m) ==
  IF i > Len(ss) THEN m ELSE zoneMapLoop(ss, i + 1, AddSensor(m, ss[i]))

zoneMap(ss) == zoneMapLoop(ss, 1, [keys |-> <<>>, get |-> <<>>])

----------------------------------------------------------------------------
(* allTimestamps: a Set in insertion order, held as the sequence of the    *)
(* first occurrences                                                       *)

TimestampsOf(readings) == AsSeq([k \in 1..Len(readings) |-> readings[k].timestamp])

RECURSIVE FlatTimestamps(_, _)
FlatTimestamps(ss, i) ==
  IF i > Len(ss) THEN <<>>
  ELSE TimestampsOf(ss[i].readings) \o FlatTimestamps(ss, i + 1)

FirstOccurrences(flat) ==
  Pick(flat, SelectSeq(Indices(Len(flat)),
                       LAMBDA i : \A j \in 1..(i - 1) : flat[j] # flat[i]))

(* Variant: only the first series supplies timestamps *)
allTimestampsOfFirst(ss) ==
  IF ss = <<>> THEN <<>> ELSE FirstOccurrences(TimestampsOf(ss[1].readings))

allTimestamps(ss) == FirstOccurrences(FlatTimestamps(ss, 1))

----------------------------------------------------------------------------
(* One point per timestamp *)

ZoneKey(zoneId) == "zone_" \o ToString(zoneId)

HeadOrNull(s) == IF s = <<>> THEN Null ELSE Some(s[1])

(* Variant: the last matching reading is taken *)
findLast(readings, ts) ==
  IF SelectSeq(readings, LAMBDA r : r.timestamp = ts) = <<>> THEN Null
  ELSE Some(SelectSeq(readings, LAMBDA r : r.timestamp = ts)
              [Len(SelectSeq(readings, LAMBDA r : r.timestamp = ts))])

find(readings, ts) == HeadOrNull(SelectSeq(readings, LAMBDA r : r.timestamp = ts))

ReadingValue(found) == IF found = Null THEN Null ELSE found[1].value

Unwrap(s) == AsSeq([i \in 1..Len(s) |-> s[i][1]])

(* The values pushed for a zone at ts, in the order of its sensors, each   *)
(* as it stands in its reading                                             *)
zoneValues(group, ts) ==
  SelectSeq(
    AsSeq([i \in 1..Len(group.sensors) |->
             ReadingValue(find(group.sensors[i].readings, ts))]),
    LAMBDA v : v # Null)

RECURSIVE SumSeq(_)
SumSeq(s) == IF s = <<>> THEN 0 ELSE s[1] + SumSeq(Tail(s))

(* Variant: Math.floor in place of Math.round *)
MathFloor(num, den) == num \div den

(* Math.round(num / den) for den > 0: the nearest integer, halves upwards *)
MathRound(num, den) == (2 * num + den) \div (2 * den)

(* Double arithmetic.  Double(hi, lo) is the double (hi * 2^27 + lo) *     *)
(* 2^-46: every double from 64 up to 2048 is of this form, with the low    *)
(* bits beyond its 53-bit significand zero.  The sum and the product       *)
(* below are the IEEE-754 results (the exact result rounded to nearest,    *)
(* ties to even) on all such doubles; the quotient is the IEEE-754 result  *)
(* when it is at least 64, as is the mean of values from 64 upwards.       *)

Limb == 2 ^ 27

Double(hi, lo) == <<hi, lo>>

IsDouble(v) == Len(v) = 2

(* The number of low bits of hi * 2^27 + lo beyond a 53-bit significand *)
RECURSIVE ExcessBits(_)
ExcessBits(hi) == IF hi < 2 ^ 26 THEN 0 ELSE 1 + ExcessBits(hi \div 2)

Normalise(hi, lo) == Double(hi + lo \div Limb, lo % Limb)

(* The value of the lowest bit of the significand of hi * 2^27 + lo *)
Ulp(hi) == 2 ^ ExcessBits(hi)

(* hi * 2^27 + lo + rem / n, with 0 <= rem < n, rounded to the nearest     *)
(* double, a tie to the one with the even significand                      *)
RoundNearestEven(hi, lo, rem, n) ==
  IF \/ 2 * ((lo % Ulp(hi)) * n + rem) > Ulp(hi) * n
     \/ /\ 2 * ((lo % Ulp(hi)) * n + rem) = Ulp(hi) * n
        /\ (lo \div Ulp(hi)) % 2 = 1
  THEN Normalise(hi, (lo - (lo % Ulp(hi))) + Ulp(hi))
  ELSE Double(hi, lo - (lo % Ulp(hi)))

(* a + b *)
DoubleAdd(a, b) ==
  RoundNearestEven(a[1] + b[1] + (a[2] + b[2]) \div Limb, (a[2] + b[2]) % Limb, 0, 1)

(* values.reduce((a, b) => a + b, 0): the sum from the left, from 0 *)
RECURSIVE Reduce(_, _, _)
Reduce(values, i, acc) ==
  IF i > Len(values) THEN acc ELSE Reduce(values, i + 1, DoubleAdd(acc, values[i]))

(* a / n for a count n *)
DoubleDivide(a, n) ==
  RoundNearestEven(a[1] \div n,
                   ((a[1] % n) * Limb + a[2]) \div n,
                   ((a[1] % n) * Limb + a[2]) % n,
                   n)

(* a * 10 *)
DoubleTimes10(a) ==
  RoundNearestEven(a[1] * 10 + (a[2] * 10) \div Limb, (a[2] * 10) % Limb, 0, 1)

(* Math.round(a): the nearest integer, a half upwards *)
MathRoundOfDouble(a) ==
  a[1] \div (2 ^ 19) + (IF a[1] % (2 ^ 19) >= 2 ^ 18 THEN 1 ELSE 0)

(* Math.round(sum / count * 10) on doubles *)
RoundedMeanOfDoubles(values) ==
  MathRoundOfDouble(
    DoubleTimes10(DoubleDivide(Reduce(values, 1, Double(0, 0)), Len(values))))

(* Math.round(sum / count * 10).  Values given in quarter degrees are      *)
(* small exact binary fractions, on which the double arithmetic is exact;  *)
(* values given as doubles are taken through the double arithmetic         *)
RoundedMean(values) ==
  IF IsDouble(values[1])
  THEN RoundedMeanOfDoubles(values)
  ELSE MathRound(10 * SumSeq(Unwrap(values)), 4 * Len(values))

(* Variant: a zone without values is given 0 *)
ZoneEntryOrZero(values) == IF Len(values) > 0 THEN Some(RoundedMean(values)) ELSE Some(0)

ZoneEntry(values) == IF Len(values) > 0 THEN Some(RoundedMean(values)) ELSE Null

PresentEntries(zm, entries) ==
  [k \in {ZoneKey(z) : z \in {y \in DOMAIN entries : entries[y] # Null}} |->
     entries[CHOOSE z \in DOMAIN entries : ZoneKey(z) = k][1]]

PointVals(ts, zm) ==
  PresentEntries(zm, AsFcn([z \in DOMAIN zm.get |-> ZoneEntry(zoneValues(zm.get[z], ts))]))

Point(ts, zm, h) ==
  [time |-> formatTimestamp(ts, h), ts |-> ts, vals |-> AsFcn(PointVals(ts, zm))]

(* Variant: timeMap is keyed by the label, so that of the timestamps with  *)
(* one label only the last keeps its point                                 *)
PointsForByLabel(ats, zm, h) ==
  Pick(AsSeq([k \in 1..Len(ats) |-> Point(ats[k], zm, h)]),
       SelectSeq(Indices(Len(ats)),
                 LAMBDA k : \A j \in (k + 1)..Len(ats) :
                              formatTimestamp(ats[j], h) # formatTimestamp(ats[k], h)))

PointsFor(ats, zm, h) == AsSeq([k \in 1..Len(ats) |-> Point(ats[k], zm, h)])

timeMapValues(ss, h) == PointsFor(allTimestamps(ss), zoneMap(ss), h)

----------------------------------------------------------------------------
(* Sorting by timestamp *)

(* Variant: the operands of the comparison are swapped *)
localeCompareSwapped(a, b) == IF b < a THEN -1 ELSE IF b > a THEN 1 ELSE 0

localeCompare(a, b) == IF a < b THEN -1 ELSE IF a > b THEN 1 ELSE 0

PointCompare(a, b) == localeCompare(a.ts, b.ts)

(* Array.prototype.sort is stable: the place of an element is the number  *)
(* of elements that compare before it, or equal to it and earlier          *)
Ranks(s) ==
  AsSeq([i \in 1..Len(s) |->
          1 + Cardinality({j \in 1..Len(s) :
                             \/ PointCompare(s[j], s[i]) < 0
                             \/ PointCompare(s[j], s[i]) = 0 /\ j < i})])

Inverse(r) == AsSeq([k \in 1..Len(r) |-> CHOOSE i \in 1..Len(r) : r[i] = k])

SortByTs(points) == Pick(points, Inverse(Ranks(points)))

----------------------------------------------------------------------------
(* Decimation *)

Ceil(a, b) == (a + b - 1) \div b

(* Variant: Math.floor in place of Math.ceil *)
stepFloor(n) == n \div MaxPoints

step(n) == Ceil(n, MaxPoints)

(* Variant: the last index of every stride is kept, not the first *)
KeepLastOfStride(i, st) == i % st = st - 1

Keep(i, st) == i % st = 0

(* Variant: the latest point is kept whatever its index *)
FilterWithLatest(points, st) ==
  Pick(points, SelectSeq(Indices(Len(points)),
                         LAMBDA k : Keep(k - 1, st) \/ k = Len(points)))

Filter(points, st) ==
  Pick(points, SelectSeq(Indices(Len(points)), LAMBDA k : Keep(k - 1, st)))

Reverse(s) == AsSeq([k \in 1..Len(s) |-> s[Len(s) + 1 - k]])

(* Variant: the cap itself already triggers decimation, one point early *)
DecimateFromCap(points) ==
  IF Len(points) >= MaxPoints THEN Filter(points, step(Len(points) + 1)) ELSE points

(* Variant: the kept points are collected latest first *)
DecimateLatestFirst(points) ==
  IF Len(points) > MaxPoints THEN Reverse(Filter(points, step(Len(points)))) ELSE points

Decimate(points) ==
  IF Len(points) > MaxPoints THEN Filter(points, step(Len(points))) ELSE points

----------------------------------------------------------------------------
(* Chart lines *)

(* Variant: no fallback, an unregistered zone is named by the failed lookup *)
LineNameOfLookup(names, zoneId) ==
  IF zoneId \in DOMAIN names THEN names[zoneId] ELSE "undefined"

LineName(names, zoneId) ==
  IF zoneId \in DOMAIN names /\ names[zoneId] # ""
  THEN names[zoneId]
  ELSE "Zone " \o ToString(zoneId)

(* Variant: the lines are made from the registry of names, so a zone     *)
(* without a registered name gets no line                                  *)
LinesOfRegistered(zm, names) ==
  Pick(AsSeq([i \in 1..Len(zm.keys) |->
               [key |-> ZoneKey(zm.keys[i]),
                name |-> LineName(names, zm.keys[i]),
                color |-> zm.get[zm.keys[i]].color,
                isOutdoor |-> zm.get[zm.keys[i]].isOutdoor]]),
       SelectSeq(Indices(Len(zm.keys)), LAMBDA i : zm.keys[i] \in DOMAIN names))

LinesOf(zm, names) ==
  AsSeq([i \in 1..Len(zm.keys) |->
          [key |-> ZoneKey(zm.keys[i]),
           name |-> LineName(names, zm.keys[i]),
           color |-> zm.get[zm.keys[i]].color,
           isOutdoor |-> zm.get[zm.keys[i]].isOutdoor]])

(* Variant: a zone of the registry without series in the input gets a line *)
ChartLinesOfRegistry(ss, names) ==
  LinesOf(zoneMap(ss), names)
    \o (IF DOMAIN names \subseteq DOMAIN zoneMap(ss).get THEN <<>>
        ELSE LET z == CHOOSE y \in DOMAIN names : y \notin DOMAIN zoneMap(ss).get
             IN << [key |-> ZoneKey(z), name |-> names[z],
                    color |-> DefaultColor, isOutdoor |-> FALSE] >>)

(* Variant: the array of lines outlives the call and is pushed onto again *)
ChartLinesKept(ss, names) == chartLines \o LinesOf(zoneMap(ss), names)

(* const chartLines = [] is a fresh array at every call *)
ChartLinesOf(ss, names) == LinesOf(zoneMap(ss), names)

----------------------------------------------------------------------------
(* Inputs *)

RECURSIVE Total(_, _)
Total(l, n) == IF n = 0 THEN 0 ELSE l[n] + Total(l, n - 1)

Lens(n) == {l \in [1..n -> 0..MaxReadings] : Total(l, n) <= MaxReadings}

Series(zone, color, outdoor, readings) ==
  [zone_id |-> zone, zone_color |-> color, is_outdoor |-> outdoor, readings |-> readings]

(* Series with default attributes: the zones and the readings vary *)
ReadingSeries(n, zs, l, flat) ==
  AsSeq([i \in 1..n |->
          Series(zs[i], Null, FALSE,
                 SubSeq(flat, Total(l, i - 1) + 1, Total(l, i)))])

(* Series with one reading each: the zones, colors and outdoor flags vary *)
AttributeSeries(n, as) ==
  AsSeq([i \in 1..n |->
          Series(as[i][1], as[i][2], as[i][3],
                 <<[timestamp |-> 1 + (i % MaxTs), value |-> Some(3)]>>)])

(* A long history: one zone sampled at every hour 1..n, latest first, with *)
(* a gap every third reading, and an outdoor zone sampled every 7 hours    *)
LongSeries(n) ==
  << Series(Some(1), Some("#ef4444"), FALSE,
            AsSeq([i \in 1..n |->
                    [timestamp |-> n + 1 - i,
                     value |-> IF i % 3 = 0 THEN Null ELSE Some(3 * (i % 2))]])),
     Series(Some(2), Null, TRUE,
            AsSeq([i \in 1..(n \div 7) |-> [timestamp |-> 7 * i, value |-> Some(3)]])) >>

BigSizes == {MaxPoints, MaxPoints + 1, 2 * MaxPoints, 2 * MaxPoints + 1, MaxBig}

NameMaps == {<<>>, (1 :> "Living Room"), (2 :> "Attic"), (1 :> "")}

InitReadings ==
  /\ \E n \in 0..MaxSensors :
       \E zs \in [1..n -> ZoneIdSet] :
         \E l \in Lens(n) :
           \E flat \in [1..Total(l, n) -> ReadingSet] :
             sensors = ReadingSeries(n, zs, l, flat)
  /\ zoneNameMap = <<>>
  /\ hours = 24

InitAttributes ==
  /\ \E n \in 1..MaxSensors :
       \E as \in [1..n -> ZoneIdSet \X ColorSet \X BOOLEAN] :
         sensors = AttributeSeries(n, as)
  /\ zoneNameMap \in NameMaps
  /\ hours = 168

InitLong ==
  /\ \E n \in BigSizes : sensors = LongSeries(n)
  /\ zoneNameMap = (1 :> "Living Room")
  /\ hours = 720

(* The Dashboard page as it is mounted: useState initial values, and no    *)
(* refresh started                                                         *)
Mounted ==
  /\ started = 0
  /\ pending = {}
  /\ settled = <<>>
  /\ data = Null
  /\ chartData = <<>>
  /\ forecast = <<>>
  /\ loading = TRUE

(* The History page as it is constructed: useState initial values, the    *)
(* effect of the first render not yet run, no fetch started; its           *)
(* DateRangeBar with the panel closed and both date fields empty           *)
Constructed ==
  /\ range = [mode |-> "preset", hours |-> 24]
  /\ effectDeps = Null
  /\ pageReadings = Null
  /\ historyLoading = TRUE
  /\ fetches = 0
  /\ inFlight = {}
  /\ fetchLog = <<>>
  /\ customOpen = FALSE
  /\ startVal = Null
  /\ endVal = Null
  /\ lastReport = Null

NothingBuilt ==
  /\ pc = "call"
  /\ sortedPoints = <<>>
  /\ chartPoints = <<>>
  /\ chartLines = <<>>
  /\ history = <<>>
  /\ hvacTimeline = Null
  /\ dashboardPoints = Null
  /\ dashboardLines = Null

NoCallYet ==
  /\ NothingBuilt
  /\ Mounted
  /\ Constructed
  /\ timeZone = "UTC"

Init ==
  /\ InitReadings \/ InitAttributes \/ InitLong
  /\ NoCallYet

----------------------------------------------------------------------------
(* buildZoneChart(sensors, zoneNameMap, hours) *)

Arguments == <<sensors, zoneNameMap, hours>>

(* history is the record of the calls made so far: the arguments and the   *)
(* returned { chartPoints, chartLines } of each                            *)
Returned(args, points, lines) ==
  [args |-> args, chartPoints |-> points, chartLines |-> lines]

(* Variant: reading.value, which raises a TypeError when find found nothing *)
ValueOfRaises(found) == found = Null

(* reading?.value: the optional chain yields undefined when find found     *)
(* nothing, so the read never raises                                       *)
OptionalValueRaises(found) == FALSE

(* The call raises if a read of a member series' reading raises at some    *)
(* timestamp; no other step of the function can raise on well-formed       *)
(* series (reduce has an initial value, the division is guarded by         *)
(* values.length > 0, the group of a zone is set before it is fetched)     *)
Raises(ss) ==
  \E i \in DOMAIN ss :
    /\ ss[i].zone_id # Null
    /\ \E j \in DOMAIN ss : \E k \in DOMAIN ss[j].readings :
         OptionalValueRaises(find(ss[i].readings, ss[j].readings[k].timestamp))

(* Variant: every series' readings are put in order in place *)
SeriesReversedInPlace(ss) ==
  AsSeq([i \in DOMAIN ss |->
          Series(ss[i].zone_id, ss[i].zone_color, ss[i].is_outdoor,
                 Reverse(ss[i].readings))])

(* The series list when the call ends.  The function reads sensors and     *)
(* sensor.readings (for-of, find) and writes neither: group.sensors is an  *)
(* array of its own and sort works on the array Array.from created         *)
SeriesAfterCall(ss) == ss

BuildZoneChart ==
  /\ pc = "call"
  /\ IF Raises(sensors)
     THEN /\ pc' = "error"
          /\ UNCHANGED <<sortedPoints, chartPoints, chartLines, history>>
     ELSE /\ sortedPoints' = SortByTs(timeMapValues(sensors, hours))
          /\ chartPoints' = Decimate(sortedPoints')
          /\ chartLines' = ChartLinesOf(sensors, zoneNameMap)
          /\ history' = Append(history, Returned(Arguments, chartPoints', chartLines'))
          /\ pc' = "done"
  /\ sensors' = SeriesAfterCall(sensors)
  /\ UNCHANGED <<zoneNameMap, hours>>
  /\ UNCHANGED <<pageVars, historyVars, builtVars>>

Next == BuildZoneChart

Spec == Init /\ [][Next]_vars

----------------------------------------------------------------------------
(* Spans and numbers of points: one zone sampled at every hour 1..n, with  *)
(* a gap every third hour, under every span of 1..MaxHours hours and under *)
(* 30 days                                                                 *)

HourlySeries(n) ==
  << Series(Some(1), Null, FALSE,
            AsSeq([i \in 1..n |->
                    [timestamp |-> i,
                     value |-> IF i % 3 = 0 THEN Null ELSE Some(3 * (i % 2))]])) >>

HourlySizes == {1, 25, 169}

InitSpans ==
  /\ \E n \in HourlySizes : sensors = HourlySeries(n)
  /\ zoneNameMap = <<>>
  /\ hours \in (1..MaxHours) \cup {720}
  /\ NoCallYet

SpecSpans == InitSpans /\ [][Next]_vars

----------------------------------------------------------------------------
(* Sensor order: three series of one zone report at the same timestamp,    *)
(* with values given as doubles; a later response of the data source       *)
(* lists the same series in another order                                  *)

(* The doubles nearest to 77.02, 70.32, 71.51 and 70 *)
DoubleValues ==
  { Double(40380661, 102005473), Double(36867932, 21474836),
    Double(37491834, 118111601), Double(36700160, 0) }

ReportingSeries(value) ==
  Series(Some(1), Null, FALSE, << [timestamp |-> 1, value |-> value] >>)

InitOrder ==
  /\ \E a, b, c \in DoubleValues :
       sensors = << ReportingSeries(a), ReportingSeries(b), ReportingSeries(c) >>
  /\ zoneNameMap = <<>>
  /\ hours = 24
  /\ NoCallYet

Reorderings(ss) ==
  {AsSeq([k \in DOMAIN ss |-> ss[p[k]]]) : p \in Permutations(DOMAIN ss)}

Reorder ==
  /\ pc = "done"
  /\ Len(history) < MaxCalls
  /\ sensors' \in Reorderings(sensors)
  /\ pc' = "call"
  /\ UNCHANGED <<zoneNameMap, hours, sortedPoints, chartPoints, chartLines, history>>
  /\ UNCHANGED <<pageVars, historyVars, builtVars>>

NextOrder == BuildZoneChart \/ Reorder

SpecOrder == InitOrder /\ [][NextOrder]_vars

----------------------------------------------------------------------------
(* Repeated calls: every render of the page calls buildZoneChart once for  *)
(* the temperature series and once for the humidity series, and the next   *)
(* render calls it again, with the same or with other arguments            *)

CallSeries ==
  { << Series(Some(1), Some("#ef4444"), FALSE,
              << [timestamp |-> 2, value |-> Some(3)],
                 [timestamp |-> 1, value |-> Some(0)] >>),
       Series(Some(2), Null, TRUE, << [timestamp |-> 1, value |-> Some(3)] >>) >>,
    << Series(Some(1), Null, TRUE, << [timestamp |-> 1, value |-> Null] >>) >> }

CallNames == {<<>>, (1 :> "Living Room")}

CallHours == {24, 720}

InitCalls ==
  /\ sensors \in CallSeries
  /\ zoneNameMap \in CallNames
  /\ hours \in CallHours
  /\ NoCallYet

(* The caller passes the arguments of its next call; what the last call    *)
(* returned stays with the caller                                          *)
NextCall ==
  /\ pc = "done"
  /\ Len(history) < MaxCalls
  /\ sensors' \in CallSeries
  /\ zoneNameMap' \in CallNames
  /\ hours' \in CallHours
  /\ pc' = "call"
  /\ UNCHANGED <<sortedPoints, chartPoints, chartLines, history>>
  /\ UNCHANGED <<pageVars, historyVars, builtVars>>

NextCalls == BuildZoneChart \/ NextCall

SpecCalls == InitCalls /\ [][NextCalls]_vars

----------------------------------------------------------------------------
(* buildZoneChart of pages/Dashboard.tsx: no span, an optional zone-name   *)
(* map, the time of day as the label of every point, no decimation.  It is *)
(* given the series and the zone names the History page's function is      *)
(* given.                                                                  *)

(* new Date(ts).toLocaleTimeString([], {hour: "2-digit", minute: "2-digit"}) *)
toLocaleTimeString(ts) == <<"HH:MM", ts % 24>>

(* zoneNameMap || new Map(): an omitted argument is an empty map *)
zoneNames(argument) == IF argument = Null THEN <<>> ELSE argument[1]

DashboardPoint(ts, zm) ==
  [time |-> toLocaleTimeString(ts), ts |-> ts, vals |-> AsFcn(PointVals(ts, zm))]

DashboardPointsFor(ats, zm) ==
  AsSeq([k \in 1..Len(ats) |-> DashboardPoint(ats[k], zm)])

DashboardChartPoints(ss) ==
  SortByTs(DashboardPointsFor(allTimestamps(ss), zoneMap(ss)))

DashboardChartLines(ss, argument) == LinesOf(zoneMap(ss), zoneNames(argument))

BuildZoneChartOfDashboard ==
  /\ dashboardPoints = Null
  /\ dashboardPoints' = Some(DashboardChartPoints(sensors))
  /\ dashboardLines' = Some(DashboardChartLines(sensors, Some(zoneNameMap)))
  /\ UNCHANGED <<chartVars, pageVars, historyVars, hvacTimeline>>

BothSizes == {1, 25, MaxPoints, MaxPoints + 1}

BothHours == {1, 24, 25}

InitBoth ==
  /\ sensors \in CallSeries \cup {HourlySeries(n) : n \in BothSizes}
  /\ zoneNameMap \in NameMaps
  /\ hours \in BothHours
  /\ NoCallYet

NextBoth == BuildZoneChart \/ BuildZoneChartOfDashboard

SpecBoth == InitBoth /\ [][NextBoth]_vars

----------------------------------------------------------------------------
(* Refreshes of the Dashboard page.  fetchData is called when the page is  *)
(* mounted, at every tick of the 60 s interval and at every click on the   *)
(* Refresh button; it issues three requests and awaits them together.  The *)
(* refreshes are numbered in the order they are started, and the response  *)
(* to the requests of refresh r is held as Some(r): the server's data as   *)
(* of that refresh.                                                        *)

(* Variant: a failed forecast request leaves the forecast as it is *)
ForecastResponsesKept(r) == {Some(r), forecast}

(* getForecast().catch(() => []): a failed forecast request gives [] *)
ForecastResponses(r) == {Some(r), <<>>}

Settlement(r, outcome, fc) == [id |-> r, outcome |-> outcome, forecast |-> fc]

(* fetchData up to its await: the three requests are on their way *)
FetchData ==
  /\ started < MaxRefreshes
  /\ started' = started + 1
  /\ pending' = pending \cup {started + 1}
  /\ UNCHANGED <<settled, data, chartData, forecast, loading>>
  /\ UNCHANGED <<chartVars, historyVars, builtVars>>

(* Promise.all is fulfilled: the continuation of fetchData sets the three  *)
(* states and, in finally, loading                                         *)
FetchDataFulfilled ==
  \E r \in pending : \E fc \in ForecastResponses(r) :
    /\ data' = Some(r)
    /\ chartData' = Some(r)
    /\ forecast' = fc
    /\ loading' = FALSE
    /\ pending' = pending \ {r}
    /\ settled' = Append(settled, Settlement(r, "fulfilled", fc))
    /\ UNCHANGED started
    /\ UNCHANGED <<chartVars, historyVars, builtVars>>

(* getDashboard or getReadings is rejected: catch logs, finally sets       *)
(* loading; nothing else is set                                            *)
FetchDataRejected ==
  \E r \in pending :
    /\ loading' = FALSE
    /\ pending' = pending \ {r}
    /\ settled' = Append(settled, Settlement(r, "rejected", <<>>))
    /\ UNCHANGED <<started, data, chartData, forecast>>
    /\ UNCHANGED <<chartVars, historyVars, builtVars>>

InitRefresh ==
  /\ sensors = <<>>
  /\ zoneNameMap = <<>>
  /\ hours = 24
  /\ NoCallYet

NextRefresh == FetchData \/ FetchDataFulfilled \/ FetchDataRejected

SpecRefresh == InitRefresh /\ [][NextRefresh]_vars

----------------------------------------------------------------------------
(* buildHvacTimeline: for every climate series of a zone, the shares of    *)
(* its readings spent heating, cooling and idle, in percent.  The          *)
(* hvac_action of a reading is Null when it is null or missing, else       *)
(* Some(string).                                                           *)

HvacActions == {Null, Some(""), Some("heating"), Some("cooling"), Some("idle"), Some("off")}

(* r.hvac_action as a condition: null, undefined and "" are falsy *)
Truthy(action) == action # Null /\ action # Some("")

HasAction(sensor) == \E k \in DOMAIN sensor.readings : Truthy(sensor.readings[k].hvac_action)

climateSensors(ss) == SelectSeq(ss, LAMBDA sn : HasAction(sn) /\ sn.zone_id # Null)

(* zoneNameMap.get(sensor.zone_id) || sensor.friendly_name *)
zoneName(sensor, names) ==
  IF sensor.zone_id[1] \in DOMAIN names /\ names[sensor.zone_id[1]] # ""
  THEN names[sensor.zone_id[1]]
  ELSE sensor.friendly_name

Counted(sensor) == SelectSeq(sensor.readings, LAMBDA r : Truthy(r.hvac_action))

(* Variant: only the action "idle" counts as idle *)
IsIdleByName(action) == action = "idle"

(* The else branch: every action that is neither heating nor cooling *)
IsIdle(action) == action # "heating" /\ action # "cooling"

heating(sensor) == Len(SelectSeq(Counted(sensor), LAMBDA r : r.hvac_action[1] = "heating"))

cooling(sensor) == Len(SelectSeq(Counted(sensor), LAMBDA r : r.hvac_action[1] = "cooling"))

idle(sensor) == Len(SelectSeq(Counted(sensor), LAMBDA r : IsIdle(r.hvac_action[1])))

total(sensor) == Len(Counted(sensor))

(* Math.round((count / total) * 100).  For a total below 40 the double     *)
(* (count / total) * 100 rounds as the exact value 100 * count / total     *)
(* does                                                                    *)
Percent(count, n) == MathRound(100 * count, n)

Row(sensor, names) ==
  [zone |-> zoneName(sensor, names),
   heating |-> Percent(heating(sensor), total(sensor)),
   cooling |-> Percent(cooling(sensor), total(sensor)),
   idle |-> Percent(idle(sensor), total(sensor))]

Rows(cs, names) ==
  AsSeq([i \in 1..Len(SelectSeq(cs, LAMBDA sn : total(sn) > 0)) |->
          Row(SelectSeq(cs, LAMBDA sn : total(sn) > 0)[i], names)])

ZonesOf(rows) == AsSeq([i \in 1..Len(rows) |-> rows[i].zone])

Timeline(rows) == [data |-> rows, zones |-> ZonesOf(rows)]

BuildHvacTimeline ==
  /\ hvacTimeline = Null
  /\ hvacTimeline' = Some(Timeline(Rows(climateSensors(sensors), zoneNameMap)))
  /\ UNCHANGED <<chartVars, pageVars, historyVars, dashboardPoints, dashboardLines>>

(* A climate series whose readings carry, in this order, h times heating,  *)
(* c times cooling, o times idle or off in turn, and n times no action     *)
ActionAt(i, h, c, o) ==
  IF i <= h THEN Some("heating")
  ELSE IF i <= h + c THEN Some("cooling")
  ELSE IF i <= h + c + o THEN (IF (i - h - c) % 2 = 1 THEN Some("off") ELSE Some("idle"))
  ELSE (IF (i - h - c - o) % 2 = 1 THEN Null ELSE Some(""))

HvacSeries(zone, name, h, c, o, n) ==
  [zone_id |-> zone, friendly_name |-> name, zone_color |-> Null, is_outdoor |-> FALSE,
   readings |-> AsSeq([i \in 1..(h + c + o + n) |->
                        [timestamp |-> i, value |-> Null,
                         hvac_action |-> ActionAt(i, h, c, o)]])]

(* The series that accompany the varied one *)
Companions ==
  { <<>>,
    << HvacSeries(Some(1), "Hall thermostat", 0, 0, 1, 0) >>,
    << HvacSeries(Some(2), "Probe", 0, 0, 0, 2) >> }

InitHvac ==
  /\ \E zone \in {Null, Some(1), Some(2)} :
       \E h \in 0..MaxActions : \E c \in 0..(MaxActions - h) :
         \E o \in 0..(MaxActions - h - c) : \E n \in 0..(MaxActions - h - c - o) :
           \E rest \in Companions :
             sensors = <<HvacSeries(zone, "Thermostat", h, c, o, n)>> \o rest
  /\ zoneNameMap \in CallNames
  /\ hours = 24
  /\ NoCallYet

NextHvac == BuildHvacTimeline

SpecHvac == InitHvac /\ [][NextHvac]_vars

----------------------------------------------------------------------------
(* The History page with its DateRangeBar.  The page holds the selected    *)
(* range; an effect that depends on the range calls fetchData after the    *)
(* first render and after every render in which the range has changed, and *)
(* the Refresh button calls fetchData as well.  The DateRangeBar holds the *)
(* panel flag and the two date fields and reports ranges through onChange, *)
(* which is the page's setRange.                                           *)
(*                                                                         *)
(* A date field holds Null for the empty string and Some(d) for the        *)
(* calendar day d.  An ISO string is held as the instant it denotes, in    *)
(* seconds.  The response to a fetch is held as the range it was asked     *)
(* for.                                                                    *)

PRESETS == <<2, 6, 24, 168, 720, 2160, 8760>>

Preset(h) == [mode |-> "preset", hours |-> h]

Custom(start, end) == [mode |-> "custom", start |-> start, end |-> end]

(* The days offered by the date fields.  Day 7 is a day on which the       *)
(* clocks go back one hour at 02:00 where daylight saving time is observed *)
Days == {1, 7, 8}

DateValues == {Null} \cup {Some(d) : d \in Days}

TimeZones == {"UTC", "America/New_York"}

(* The offset of the local time from UTC, in hours *)
UtcOffset(zone, day, second) ==
  IF zone = "UTC" THEN 0
  ELSE IF day < 7 \/ (day = 7 /\ second < 2 * 3600) THEN -4
  ELSE -5

(* new Date(date + "T..").toISOString(): a date-time without offset is     *)
(* local time; the result is the instant in UTC                            *)
toISOString(zone, day, second) ==
  day * 86400 + second - UtcOffset(zone, day, second) * 3600

(* Variant: Go reports as soon as one of the two fields is filled; the     *)
(* empty field is read as the other one                                    *)
applyCustomReturnsIfBothEmpty(sv, ev) == sv = Null /\ ev = Null

(* if (!startVal || !endVal) return *)
applyCustomReturns(sv, ev) == sv = Null \/ ev = Null

FieldOr(v, other) == IF v = Null THEN other[1] ELSE v[1]

(* The range applyCustom reports: T00:00:00 of the start day to T23:59:59  *)
(* of the end day                                                          *)
CustomOf(zone, sv, ev) ==
  Custom(toISOString(zone, FieldOr(sv, ev), 0),
         toISOString(zone, FieldOr(ev, sv), 86399))

(* Math.round((end - start) / 3600000) for a custom range *)
displayHours(r) ==
  IF r.mode = "preset" THEN r.hours ELSE MathRound(r.end - r.start, 3600)

(* What onChange was last called with, by which control, and the state of  *)
(* the bar its handler left                                                *)
Report(by, r, open, sv, ev) ==
  Some([by |-> by, range |-> r, customOpen |-> open, startVal |-> sv, endVal |-> ev])

fetchUnchanged == UNCHANGED <<effectDeps, pageReadings, historyLoading, fetches, inFlight, fetchLog>>

otherUnchanged == UNCHANGED <<timeZone, chartVars, pageVars, builtVars>>

(* A preset button *)
PresetClick ==
  /\ \E i \in DOMAIN PRESETS :
       /\ customOpen' = FALSE
       /\ range' = Preset(PRESETS[i])
       /\ lastReport' = Report("preset", range', customOpen', startVal, endVal)
  /\ UNCHANGED <<startVal, endVal>>
  /\ fetchUnchanged
  /\ otherUnchanged

(* The custom toggle *)
ToggleCustom ==
  /\ customOpen' = ~customOpen
  /\ UNCHANGED <<range, startVal, endVal, lastReport>>
  /\ fetchUnchanged
  /\ otherUnchanged

(* The date fields are rendered while the panel is open *)
EditStart ==
  /\ customOpen
  /\ \E d \in DateValues : startVal' = d
  /\ UNCHANGED <<range, customOpen, endVal, lastReport>>
  /\ fetchUnchanged
  /\ otherUnchanged

EditEnd ==
  /\ customOpen
  /\ \E d \in DateValues : endVal' = d
  /\ UNCHANGED <<range, customOpen, startVal, lastReport>>
  /\ fetchUnchanged
  /\ otherUnchanged

(* The Go button: applyCustom *)
Go ==
  /\ customOpen
  /\ IF applyCustomReturns(startVal, endVal)
     THEN UNCHANGED <<range, lastReport>>
     ELSE /\ range' = CustomOf(timeZone, startVal, endVal)
          /\ lastReport' = Report("go", range', customOpen, startVal, endVal)
  /\ UNCHANGED <<customOpen, startVal, endVal>>
  /\ fetchUnchanged
  /\ otherUnchanged

(* Either X button, rendered while the range is a custom one: clearCustom *)
ClearCustom ==
  /\ range.mode = "custom"
  /\ customOpen' = FALSE
  /\ startVal' = Null
  /\ endVal' = Null
  /\ range' = Preset(24)
  /\ lastReport' = Report("clear", range', customOpen', startVal', endVal')
  /\ fetchUnchanged
  /\ otherUnchanged

(* fetchData up to its await, for the range of the render it closes over *)
StartFetch ==
  /\ historyLoading' = TRUE
  /\ fetches' = fetches + 1
  /\ inFlight' = inFlight \cup {[id |-> fetches + 1, range |-> range]}

barUnchanged == UNCHANGED <<range, customOpen, startVal, endVal, lastReport>>

(* useEffect(() => { fetchData() }, [JSON.stringify(range)]) *)
RunEffect ==
  /\ effectDeps # Some(range)
  /\ fetches < MaxFetches
  /\ effectDeps' = Some(range)
  /\ StartFetch
  /\ UNCHANGED <<pageReadings, fetchLog>>
  /\ barUnchanged
  /\ otherUnchanged

(* The Refresh button: onClick={fetchData} *)
RefreshClick ==
  /\ fetches < MaxFetches
  /\ StartFetch
  /\ UNCHANGED <<effectDeps, pageReadings, fetchLog>>
  /\ barUnchanged
  /\ otherUnchanged

Fetched(f, outcome) == [id |-> f.id, range |-> f.range, outcome |-> outcome]

(* Promise.all is fulfilled: the continuation sets the readings and, in    *)
(* finally, loading                                                        *)
FetchFulfilled ==
  /\ \E f \in inFlight :
       /\ pageReadings' = Some(f.range)
       /\ historyLoading' = FALSE
       /\ inFlight' = inFlight \ {f}
       /\ fetchLog' = Append(fetchLog, Fetched(f, "fulfilled"))
  /\ UNCHANGED <<effectDeps, fetches>>
  /\ barUnchanged
  /\ otherUnchanged

(* A request is rejected: catch logs, finally sets loading *)
FetchRejected ==
  /\ \E f \in inFlight :
       /\ historyLoading' = FALSE
       /\ inFlight' = inFlight \ {f}
       /\ fetchLog' = Append(fetchLog, Fetched(f, "rejected"))
  /\ UNCHANGED <<effectDeps, fetches, pageReadings>>
  /\ barUnchanged
  /\ otherUnchanged

InitHistory ==
  /\ sensors = <<>>
  /\ zoneNameMap = <<>>
  /\ hours = 24
  /\ NothingBuilt
  /\ Mounted
  /\ Constructed
  /\ timeZone \in TimeZones

(* The DateRangeBar in the hands of its user, under a parent that keeps    *)
(* the range it is told                                                    *)
NextBar ==
  \/ PresetClick
  \/ ToggleCustom
  \/ EditStart
  \/ EditEnd
  \/ Go
  \/ ClearCustom

SpecBar == InitHistory /\ [][NextBar]_vars

(* Every effect of the last render has run *)
EffectsFlushed == effectDeps = Some(range)

(* The History page under a user who leaves the custom panel closed.  The  *)
(* effects of a render run before the next event is handled; a response    *)
(* may arrive at any time                                                  *)
NextHistory ==
  \/ EffectsFlushed /\ PresetClick
  \/ EffectsFlushed /\ RefreshClick
  \/ RunEffect
  \/ FetchFulfilled
  \/ FetchRejected

SpecHistory == InitHistory /\ [][NextHistory]_vars

----------------------------------------------------------------------------
(* Properties of buildZoneChart.  They are stated over the input held in   *)
(* sensors and the three results, without the operators that compute them. *)

Done == pc = "done"

Readings(i) == sensors[i].readings

TimestampsOfSeries(i) == {Readings(i)[k].timestamp : k \in DOMAIN Readings(i)}

InputTimestamps == UNION {TimestampsOfSeries(i) : i \in DOMAIN sensors}

Members(z) == {i \in DOMAIN sensors : sensors[i].zone_id = Some(z)}

(* The readings <<series, index>> of zone z at ts that carry a value *)
ValuedAt(z, ts) ==
  UNION {{<<i, k>> : k \in {k \in DOMAIN Readings(i) :
                              /\ Readings(i)[k].timestamp = ts
                              /\ Readings(i)[k].value # Null}} : i \in Members(z)}

(* The first reading of every series of zone z at ts *)
FirstAt(z, ts) ==
  UNION {{<<i, k>> : k \in {k \in DOMAIN Readings(i) :
                              /\ Readings(i)[k].timestamp = ts
                              /\ \A j \in 1..(k - 1) : Readings(i)[j].timestamp # ts}}
         : i \in Members(z)}

(* Those of them that carry a value *)
FirstValuedAt(z, ts) == {x \in FirstAt(z, ts) : Readings(x[1])[x[2]].value # Null}

RECURSIVE SumOfReadings(_)
SumOfReadings(P) ==
  IF P = {} THEN 0
  ELSE LET x == CHOOSE y \in P : TRUE
       IN Readings(x[1])[x[2]].value[1] + SumOfReadings(P \ {x})

(* tenths is the mean of the readings P, which are in quarter degrees,     *)
(* rounded to one decimal: | 10 * sum / (4 * count) - tenths | <= 1/2      *)
IsRoundedMeanOf(P, tenths) ==
  /\ 10 * SumOfReadings(P) - 4 * Cardinality(P) * tenths <= 2 * Cardinality(P)
  /\ 4 * Cardinality(P) * tenths - 10 * SumOfReadings(P) <= 2 * Cardinality(P)

HasMeanOf(P, point, z) ==
  P # {} => /\ ZoneKey(z) \in DOMAIN point.vals
            /\ IsRoundedMeanOf(P, point.vals[ZoneKey(z)])

StrictlyAscending(points) ==
  \A i \in 1..(Len(points) - 1) : points[i].ts < points[i + 1].ts

(* C1: the returned chart points are strictly ascending by timestamp, so   *)
(* no two of them carry the same timestamp.                                *)
C1_StrictlyAscending == Done => StrictlyAscending(chartPoints)

(* C1 witness: a series listed its readings latest first and the result    *)
(* holds both timestamps.                                                  *)
C1_Witness ==
  /\ Done
  /\ Len(chartPoints) >= 2
  /\ Len(chartPoints) <= MaxPoints
  /\ \E i \in DOMAIN sensors :
       \E k \in 1..(Len(Readings(i)) - 1) :
         Readings(i)[k].timestamp > Readings(i)[k + 1].timestamp

(* C2: before decimation, the timestamps of the points are exactly the     *)
(* timestamps of the readings of all input series: none is invented and    *)
(* none is dropped, also when only one zone reports it.                    *)
C2_UnionOfTimestamps ==
  Done => /\ {sortedPoints[k].ts : k \in DOMAIN sortedPoints} = InputTimestamps
          /\ Len(sortedPoints) = Cardinality(InputTimestamps)

(* C2 witness: two zones, and a timestamp that only the second reports.    *)
C2_Witness ==
  /\ Done
  /\ \E ts \in InputTimestamps :
       /\ ValuedAt(1, ts) = {} /\ Members(1) # {}
       /\ ValuedAt(2, ts) # {}
       /\ \A i \in Members(1) : ts \notin TimestampsOfSeries(i)
       /\ \E k \in DOMAIN sortedPoints : sortedPoints[k].ts = ts

Zoned(ss) == SelectSeq(ss, LAMBDA s : s.zone_id # Null)

(* C5: a series without zone is ignored: the points and the lines are      *)
(* those of the input with that series removed.                            *)
C5_NullZoneIgnored ==
  Done => /\ chartPoints = Decimate(SortByTs(timeMapValues(Zoned(sensors), hours)))
          /\ chartLines = ChartLinesOf(Zoned(sensors), zoneNameMap)

LineOf(z) == {j \in DOMAIN chartLines : chartLines[j].key = ZoneKey(z)}

(* C6: the line of a zone is flagged outdoor exactly if some input series  *)
(* of the zone is outdoor, wherever that series stands in the input.       *)
C6_OutdoorIffAnyMember ==
  Done => \A z \in Zones : \A j \in LineOf(z) :
            chartLines[j].isOutdoor <=> \E i \in Members(z) : sensors[i].is_outdoor

(* C6 witness: the first series of a zone is indoor, a later one outdoor,  *)
(* and the line is outdoor.                                                *)
C6_Witness ==
  /\ Done
  /\ \E z \in Zones : \E j \in LineOf(z) : \E a, b \in Members(z) :
       /\ a < b
       /\ \A i \in Members(z) : a <= i
       /\ ~sensors[a].is_outdoor
       /\ sensors[b].is_outdoor
       /\ chartLines[j].isOutdoor

(* n is the least integer with n * d >= a, i.e. ceil(a / d) *)
IsCeil(n, a, d) == n * d >= a /\ (n - 1) * d < a

(* C7: more than 500 aligned points are decimated to exactly ceil(n / N)   *)
(* points with N = ceil(n / 500), which is at most 500; the same holds of  *)
(* every smaller number of points above 500.                               *)
C7_DecimatedLength ==
  Done /\ Len(sortedPoints) > 500 =>
    /\ \E N \in 1..Len(sortedPoints) :
         /\ IsCeil(N, Len(sortedPoints), 500)
         /\ IsCeil(Len(chartPoints), Len(sortedPoints), N)
    /\ Len(chartPoints) <= 500
    /\ \A n \in 501..Len(sortedPoints) :
         /\ Len(Decimate(Indices(n))) <= 500
         /\ \E N \in 1..n : /\ IsCeil(N, n, 500)
                            /\ IsCeil(Len(Decimate(Indices(n))), n, N)

(* C7 witness: 1000 points, the largest number that stride 2 brings to     *)
(* exactly 500.                                                            *)
C7_Witness == Done /\ Len(sortedPoints) = 1000 /\ Len(chartPoints) = 500

(* C8: when decimation runs, the sorted point at index i (from 0) is kept  *)
(* exactly if i mod N = 0 with N = ceil(n / 500): index 0 is always kept,  *)
(* and 1200 points give the 400 indices 0, 3, ..., 1197.                   *)
C8_KeptIndices ==
  Done /\ Len(sortedPoints) > 500 =>
    \E N \in 1..Len(sortedPoints) :
      /\ IsCeil(N, Len(sortedPoints), 500)
      /\ Len(chartPoints) = Cardinality({i \in 0..(Len(sortedPoints) - 1) : i % N = 0})
      /\ \A k \in DOMAIN chartPoints : chartPoints[k] = sortedPoints[(k - 1) * N + 1]
      /\ chartPoints[1] = sortedPoints[1]
      /\ Len(sortedPoints) = 1200 =>
           /\ N = 3
           /\ Len(chartPoints) = 400
           /\ chartPoints[400] = sortedPoints[1197 + 1]

(* C8 witness: the 1200 points of the scenario. *)
C8_Witness == Done /\ Len(sortedPoints) = 1200 /\ Len(chartPoints) = 400

(* C9: at most 500 aligned points, 500 included, are returned as they      *)
(* were sorted.                                                            *)
C9_IdentityUpToCap ==
  Done /\ Len(sortedPoints) <= 500 => chartPoints = sortedPoints

(* C9 witness: exactly 500 points. *)
C9_Witness == Done /\ Len(sortedPoints) = 500 /\ Len(chartPoints) = 500

PlaceInSorted(k) == CHOOSE i \in DOMAIN sortedPoints : sortedPoints[i] = chartPoints[k]

(* C10: the returned points are a subsequence of the sorted points, in the *)
(* same relative order, and so remain strictly ascending by timestamp.     *)
C10_OrderPreserved ==
  Done => /\ \A k \in DOMAIN chartPoints :
               \E i \in DOMAIN sortedPoints : sortedPoints[i] = chartPoints[k]
          /\ \A k \in 1..(Len(chartPoints) - 1) : PlaceInSorted(k) < PlaceInSorted(k + 1)
          /\ StrictlyAscending(sortedPoints)
          /\ StrictlyAscending(chartPoints)

(* C10 witness: 1001 points decimated with stride 3. *)
C10_Witness == Done /\ Len(sortedPoints) = 1001 /\ Len(chartPoints) = 334

FallbackName(z) == CASE z = 1 -> "Zone 1" [] z = 2 -> "Zone 2"

HasOneLine(z) == Cardinality(LineOf(z)) = 1

(* C13 as stated: the line of a zone carries the name registered for the   *)
(* zone id, whatever it is, and "Zone {id}" when the id has no entry; the  *)
(* line is there either way.                                               *)
C13_RegisteredNameOrFallback ==
  Done => \A z \in Zones :
            Members(z) # {} =>
              /\ HasOneLine(z)
              /\ \A j \in LineOf(z) :
                   chartLines[j].name =
                     IF z \in DOMAIN zoneNameMap THEN zoneNameMap[z] ELSE FallbackName(z)

(* C13 amended: the line of a zone carries the registered name when that   *)
(* name is a non-empty string, and "Zone {id}" when the id has no entry or *)
(* its registered name is the empty string; the line is there either way   *)
(* and nothing is raised.                                                  *)
C13_NonEmptyNameOrFallback ==
  /\ pc # "error"
  /\ Done => \A z \in Zones :
               Members(z) # {} =>
                 /\ HasOneLine(z)
                 /\ \A j \in LineOf(z) :
                      chartLines[j].name =
                        IF z \in DOMAIN zoneNameMap /\ zoneNameMap[z] # ""
                        THEN zoneNameMap[z]
                        ELSE FallbackName(z)

(* C13 witness: zone 1 is registered and zone 2 is not; the lines are      *)
(* named "Living Room" and "Zone 2".                                       *)
C13_Witness ==
  /\ Done
  /\ zoneNameMap = (1 :> "Living Room")
  /\ \E i, j \in DOMAIN chartLines :
       /\ chartLines[i].key = "zone_1" /\ chartLines[i].name = "Living Room"
       /\ chartLines[j].key = "zone_2" /\ chartLines[j].name = "Zone 2"

LabelFormat(point) == point.time[1]

FormatOfSpan ==
  IF hours <= 24 THEN "HH:MM"
  ELSE IF hours <= 168 THEN "weekday HH:MM"
  ELSE "month day"

(* C14: the label format of every point follows from the span alone: up to *)
(* 24 hours the time of day, above 24 and up to 168 hours weekday and time *)
(* of day, above 168 hours month and day, whatever the number of points;   *)
(* spans of exactly 24 and 168 hours take the shorter format.              *)
C14_FormatFromSpanAlone ==
  Done => \A k \in DOMAIN chartPoints :
            /\ LabelFormat(chartPoints[k]) = FormatOfSpan
            /\ hours = 24 => LabelFormat(chartPoints[k]) = "HH:MM"
            /\ hours = 25 => LabelFormat(chartPoints[k]) = "weekday HH:MM"
            /\ hours = 168 => LabelFormat(chartPoints[k]) = "weekday HH:MM"
            /\ hours = 169 => LabelFormat(chartPoints[k]) = "month day"

(* C14 witness: 169 points, more than a week of hours, under a span of     *)
(* exactly 24 hours are all labelled with the time of day.                 *)
C14_Witness ==
  /\ Done
  /\ hours = 24
  /\ Len(chartPoints) = 169
  /\ \A k \in DOMAIN chartPoints : LabelFormat(chartPoints[k]) = "HH:MM"

(* The series of zone z that supply a non-empty color *)
Suppliers(z) == {i \in Members(z) : sensors[i].zone_color \notin {Null, Some("")}}

First(S) == CHOOSE i \in S : \A j \in S : i <= j

(* C15: the color of the line of a zone is the color of the first series   *)
(* of the zone, in input order, that supplies a non-empty color, and the   *)
(* default color only if no series of the zone supplies one.               *)
C15_FirstSuppliedColor ==
  Done => \A z \in Zones : \A j \in LineOf(z) :
            chartLines[j].color =
              IF Suppliers(z) = {} THEN "#38bdf8"
              ELSE sensors[First(Suppliers(z))].zone_color[1]

KeyOfZone(z) == CASE z = 1 -> "zone_1" [] z = 2 -> "zone_2"

(* C16: there is exactly one line, with key zone_<id>, for every zone id   *)
(* that some input series carries, and no other line: series without zone *)
(* add none, and a zone of the registry without series in the input has    *)
(* none.                                                                   *)
C16_OneLinePerInputZone ==
  Done =>
    /\ \A z \in Zones :
         Cardinality({j \in DOMAIN chartLines : chartLines[j].key = KeyOfZone(z)})
           = IF Members(z) # {} THEN 1 ELSE 0
    /\ Len(chartLines) = Cardinality({z \in Zones : Members(z) # {}})

(* C16 witness: two series of zone 1 and a registry that knows zone 2      *)
(* alone; the only line is that of zone 1.                                 *)
C16_Witness ==
  /\ Done
  /\ Cardinality(Members(1)) = 2
  /\ zoneNameMap = (2 :> "Attic")
  /\ Len(chartLines) = 1
  /\ chartLines[1].key = "zone_1"

(* The places of the readings of series i with timestamp ts *)
PlacesAt(i, ts) == {n \in DOMAIN Readings(i) : Readings(i)[n].timestamp = ts}

(* C17: of several readings of one series with the same timestamp only the *)
(* first in reading order counts for that timestamp.  Where the series is  *)
(* the only one of its zone, the zone value is that first reading's value  *)
(* rounded, and the zone has no value if the first reading is null, also   *)
(* when a later reading with that timestamp has a value; with more series  *)
(* the zone value is the mean over the series' first readings.             *)
C17_FirstDuplicateOnly ==
  Done => \A k \in DOMAIN chartPoints : \A z \in Zones : \A i \in Members(z) :
            Cardinality(PlacesAt(i, chartPoints[k].ts)) >= 2 =>
              /\ Members(z) = {i} =>
                   IF Readings(i)[First(PlacesAt(i, chartPoints[k].ts))].value = Null
                   THEN KeyOfZone(z) \notin DOMAIN chartPoints[k].vals
                   ELSE /\ KeyOfZone(z) \in DOMAIN chartPoints[k].vals
                        /\ IsRoundedMeanOf({<<i, First(PlacesAt(i, chartPoints[k].ts))>>},
                                           chartPoints[k].vals[KeyOfZone(z)])
              /\ KeyOfZone(z) \in DOMAIN chartPoints[k].vals
                   <=> FirstValuedAt(z, chartPoints[k].ts) # {}
              /\ HasMeanOf(FirstValuedAt(z, chartPoints[k].ts), chartPoints[k], z)

(* C17 witness: a series lists a null reading and then a reading of 0.75   *)
(* degrees with the same timestamp; the point has no value for its zone.   *)
C17_Witness ==
  /\ Done
  /\ \E i \in DOMAIN sensors : \E z \in Zones :
       /\ Members(z) = {i}
       /\ Len(Readings(i)) = 2
       /\ Readings(i)[1].timestamp = Readings(i)[2].timestamp
       /\ Readings(i)[1].value = Null
       /\ Readings(i)[2].value = Some(3)
       /\ Len(chartPoints) = 1
       /\ chartPoints[1].ts = Readings(i)[1].timestamp
       /\ KeyOfZone(z) \notin DOMAIN chartPoints[1].vals

(* The zone values of the points returned by call i, by timestamp *)
ValuesByTimestamp(i) ==
  {<<history[i].chartPoints[k].ts, history[i].chartPoints[k].vals>> :
     k \in DOMAIN history[i].chartPoints}

(* C18: two calls whose series lists are permutations of each other, with  *)
(* the same zone names and span, return the same zone values at every      *)
(* timestamp.                                                              *)
C18_SensorOrderIrrelevant ==
  \A i, j \in DOMAIN history :
    /\ history[j].args[1] \in Reorderings(history[i].args[1])
    /\ history[j].args[2] = history[i].args[2]
    /\ history[j].args[3] = history[i].args[3]
    => ValuesByTimestamp(i) = ValuesByTimestamp(j)

PointsAt(ts) == {k \in DOMAIN sortedPoints : sortedPoints[k].ts = ts}

(* C19: the points are keyed by timestamp, not by label: every timestamp   *)
(* of the input has its own point, also when another timestamp has the     *)
(* same label, and the point carries the zone values of the readings at    *)
(* its own timestamp; nothing is merged or removed.                        *)
C19_OnePointPerTimestamp ==
  Done =>
    /\ \A ts \in InputTimestamps : Cardinality(PointsAt(ts)) = 1
    /\ \A k \in DOMAIN sortedPoints : \A z \in Zones :
         /\ HasMeanOf(FirstValuedAt(z, sortedPoints[k].ts), sortedPoints[k], z)
         /\ FirstValuedAt(z, sortedPoints[k].ts) = {}
              => KeyOfZone(z) \notin DOMAIN sortedPoints[k].vals

(* C19 witness: under a span of 169 hours the hours 1, 2 and 3 of one day  *)
(* have the same label and three points, with 0.8, 0.0 and no value.       *)
C19_Witness ==
  /\ Done
  /\ hours = 169
  /\ Len(sortedPoints) >= 3
  /\ sortedPoints[1].time = sortedPoints[2].time
  /\ sortedPoints[2].time = sortedPoints[3].time
  /\ sortedPoints[1].ts = 1 /\ sortedPoints[1].vals = ("zone_1" :> 8)
  /\ sortedPoints[2].ts = 2 /\ sortedPoints[2].vals = ("zone_1" :> 0)
  /\ sortedPoints[3].ts = 3 /\ sortedPoints[3].vals = <<>>

(* The place of refresh r in the order of settlement, 0 while in flight *)
SettledAt(r) ==
  IF \E k \in DOMAIN settled : settled[k].id = r
  THEN CHOOSE k \in DOMAIN settled : settled[k].id = r
  ELSE 0

Fulfilled(r) == SettledAt(r) > 0 /\ settled[SettledAt(r)].outcome = "fulfilled"

(* C20: when the refresh started last has been fulfilled before an older   *)
(* refresh that overlapped it, then, once no refresh is in flight, the     *)
(* page shows the data, the chart readings and the forecast of the refresh *)
(* started last: the older result is discarded.                            *)
C20_LastStartedWins ==
  /\ pending = {}
  /\ started >= 2
  /\ Fulfilled(started)
  /\ \E older \in 1..(started - 1) :
       Fulfilled(older) /\ SettledAt(started) < SettledAt(older)
  => /\ data = Some(started)
     /\ chartData = Some(started)
     /\ forecast = settled[SettledAt(started)].forecast

C22_ShownIsSelected ==
  /\ fetches > 0
  /\ effectDeps = Some(range)
  /\ inFlight = {}
  /\ \A k \in DOMAIN fetchLog : fetchLog[k].outcome = "fulfilled"
  => /\ pageReadings = Some(range)
     /\ displayHours(pageReadings[1]) = displayHours(range)

(* C23: on the History page loading is true whenever a fetch is in flight; *)
(* it is false only when none is.                                          *)
C23_LoadingWhileInFlight == inFlight # {} => historyLoading = TRUE

(* The place in settled of the last refresh that was fulfilled, 0 if none *)
LastFulfilled ==
  IF \E k \in DOMAIN settled : settled[k].outcome = "fulfilled"
  THEN CHOOSE k \in DOMAIN settled :
         /\ settled[k].outcome = "fulfilled"
         /\ \A j \in (k + 1)..Len(settled) : settled[j].outcome = "rejected"
  ELSE 0

(* C24: a Dashboard refresh whose dashboard or readings request fails      *)
(* leaves data, chartData and forecast as they were and sets loading       *)
(* false; a refresh of which only the forecast request fails sets data and *)
(* chartData and empties forecast.  So, after any settlement, loading is   *)
(* false and the three states are those set by the last fulfilled refresh, *)
(* the forecast being its own or the empty list.                           *)
C24_FailedRefreshKeepsAll ==
  settled # <<>> =>
    /\ loading = FALSE
    /\ IF LastFulfilled = 0
       THEN data = Null /\ chartData = <<>> /\ forecast = <<>>
       ELSE /\ data = Some(settled[LastFulfilled].id)
            /\ chartData = Some(settled[LastFulfilled].id)
            /\ forecast \in {Some(settled[LastFulfilled].id), <<>>}
            /\ forecast = settled[LastFulfilled].forecast

(* C24 witness: a refresh is fulfilled with its forecast, the next one     *)
(* with a failed forecast request, the third is rejected: the data of the  *)
(* second are shown with an empty forecast.                                *)
C24_Witness ==
  /\ Len(settled) = 3
  /\ settled[1].outcome = "fulfilled" /\ settled[1].forecast # <<>>
  /\ settled[2].outcome = "fulfilled" /\ settled[2].forecast = <<>>
  /\ settled[3].outcome = "rejected"
  /\ data = Some(settled[2].id)
  /\ chartData = Some(settled[2].id)
  /\ forecast = <<>>
  /\ loading = FALSE

(* C26: given the same series and zone names, a span of at most 24 hours   *)
(* and at most 500 distinct timestamps, the buildZoneChart of the          *)
(* Dashboard and that of the History page return the same points           *)
(* (timestamp, label, zone values) and the same lines (key, name, color,   *)
(* isOutdoor).                                                             *)
C26_SameAsDashboard ==
  /\ Done
  /\ dashboardPoints # Null
  /\ hours <= 24
  /\ Cardinality(InputTimestamps) <= MaxPoints
  => /\ dashboardPoints = Some(chartPoints)
     /\ dashboardLines = Some(chartLines)

(* C26 witness: both functions were given one zone sampled at 500 hours    *)
(* under a span of 24 hours, and returned the same 500 points and the line *)
C26_Witness ==
  /\ Done
  /\ hours = 24
  /\ Len(chartPoints) = MaxPoints
  /\ dashboardPoints = Some(chartPoints)
  /\ Len(chartLines) = 1
  /\ dashboardLines = Some(chartLines)

(* The lines of a result whose key is k *)
LinesKeyed(lines, k) == {i \in DOMAIN lines : lines[i].key = k}

EveryKeyHasOneLine(points, lines) ==
  \A p \in DOMAIN points :
    \A k \in DOMAIN points[p].vals : Cardinality(LinesKeyed(lines, k)) = 1

(* C25: every zone key present in a point returned by buildZoneChart, of   *)
(* the History page or of the Dashboard, is the key of exactly one of the  *)
(* lines returned with it.                                                 *)
C25_EveryKeyHasOneLine ==
  /\ Done => EveryKeyHasOneLine(chartPoints, chartLines)
  /\ dashboardPoints # Null => EveryKeyHasOneLine(dashboardPoints[1], dashboardLines[1])

(* C25 witness: both functions returned a point with the values of two     *)
(* zones, neither of them registered by name, and two lines.               *)
C25_Witness ==
  /\ Done
  /\ dashboardPoints # Null
  /\ zoneNameMap = <<>>
  /\ Len(chartLines) = 2
  /\ \E p \in DOMAIN chartPoints : DOMAIN chartPoints[p].vals = {"zone_1", "zone_2"}
  /\ \E p \in DOMAIN dashboardPoints[1] :
       DOMAIN dashboardPoints[1][p].vals = {"zone_1", "zone_2"}
  /\ Len(dashboardLines[1]) = 2

(* The stride of n points: ceil(n / 500) *)
StrideOf(n) == CHOOSE st \in 1..n : IsCeil(st, n, MaxPoints)

(* The number of points after the last index that is a multiple of the     *)
(* stride: (n - 1) mod N                                                   *)
TailOf(n) == (n - 1) % StrideOf(n)

ReturnedTimestamps == {chartPoints[k].ts : k \in DOMAIN chartPoints}

(* C27: when n sorted points are decimated with stride N = ceil(n / 500),  *)
(* the latest point is returned if and only if (n - 1) mod N = 0;          *)
(* otherwise the last (n - 1) mod N points, the latest among them, are not *)
(* returned, and the point before them is the last one returned.           *)
C27_LatestKeptIffMultiple ==
  Done /\ Len(sortedPoints) > MaxPoints =>
    /\ sortedPoints[Len(sortedPoints)].ts \in ReturnedTimestamps
         <=> TailOf(Len(sortedPoints)) = 0
    /\ \A k \in 0..(TailOf(Len(sortedPoints)) - 1) :
         sortedPoints[Len(sortedPoints) - k].ts \notin ReturnedTimestamps
    /\ chartPoints[Len(chartPoints)]
         = sortedPoints[Len(sortedPoints) - TailOf(Len(sortedPoints))]

(* C27 witness: 1001 points are decimated with stride 3; index 1000 is not *)
(* a multiple of 3, and the latest point is not returned.                  *)
C27_Witness ==
  /\ Done
  /\ Len(sortedPoints) = 2 * MaxPoints + 1
  /\ TailOf(Len(sortedPoints)) = 1
  /\ sortedPoints[Len(sortedPoints)].ts \notin ReturnedTimestamps
  /\ chartPoints[Len(chartPoints)] = sortedPoints[Len(sortedPoints) - 1]

(* The places in sensors of the series that have a zone and at least one   *)
(* reading with an action                                                  *)
ClimatePlaces ==
  SelectSeq(Indices(Len(sensors)),
            LAMBDA i : /\ sensors[i].zone_id # Null
                       /\ \E k \in DOMAIN Readings(i) :
                            Readings(i)[k].hvac_action \notin {Null, Some("")})

ActionsOf(i) ==
  {k \in DOMAIN Readings(i) : Readings(i)[k].hvac_action \notin {Null, Some("")}}

ActionsIn(i, names) == {k \in ActionsOf(i) : Readings(i)[k].hvac_action[1] \in names}

(* p is count / n in percent, rounded to the nearest integer, a half upwards *)
IsPercentOf(p, count, n) ==
  2 * p * n <= 200 * count + n /\ 200 * count + n < 2 * (p + 1) * n

(* C28: buildHvacTimeline returns one row per series that has a zone and   *)
(* at least one reading with an action, in the order of the series; in a   *)
(* row heating, cooling and idle are integers of 0..100, their sum is 99,  *)
(* 100 or 101, and they are the rounded shares of the readings with the    *)
(* action heating, with the action cooling and with any other action, off  *)
(* included.                                                               *)
C28_OneRowPerClimateSeries ==
  hvacTimeline # Null =>
    /\ Len(hvacTimeline[1].data) = Len(ClimatePlaces)
    /\ \A j \in DOMAIN hvacTimeline[1].data :
         /\ hvacTimeline[1].data[j].heating \in 0..100
         /\ hvacTimeline[1].data[j].cooling \in 0..100
         /\ hvacTimeline[1].data[j].idle \in 0..100
         /\ hvacTimeline[1].data[j].heating + hvacTimeline[1].data[j].cooling
              + hvacTimeline[1].data[j].idle \in 99..101
         /\ IsPercentOf(hvacTimeline[1].data[j].heating,
                        Cardinality(ActionsIn(ClimatePlaces[j], {"heating"})),
                        Cardinality(ActionsOf(ClimatePlaces[j])))
         /\ IsPercentOf(hvacTimeline[1].data[j].cooling,
                        Cardinality(ActionsIn(ClimatePlaces[j], {"cooling"})),
                        Cardinality(ActionsOf(ClimatePlaces[j])))
         /\ IsPercentOf(hvacTimeline[1].data[j].idle,
                        Cardinality(ActionsOf(ClimatePlaces[j])
                                      \ ActionsIn(ClimatePlaces[j], {"heating", "cooling"})),
                        Cardinality(ActionsOf(ClimatePlaces[j])))

(* C28 witness: a series with 1 heating, 1 cooling, 6 idle or off readings *)
(* gives the row 13, 13, 75, of sum 101; a second series has a zone and no *)
(* action and gets no row.                                                 *)
C28_Witness ==
  /\ hvacTimeline # Null
  /\ Len(sensors) = 2
  /\ Len(ClimatePlaces) = 1
  /\ \E k \in DOMAIN Readings(1) : Readings(1)[k].hvac_action = Some("off")
  /\ Len(hvacTimeline[1].data) = 1
  /\ hvacTimeline[1].data[1].heating = 13
  /\ hvacTimeline[1].data[1].cooling = 13
  /\ hvacTimeline[1].data[1].idle = 75

(* The number of calendar days of the custom range Go reported last *)
DaysReported == lastReport[1].endVal[1] - lastReport[1].startVal[1] + 1

(* The label format the page hands its charts for the selected range *)
FormatOfRange == formatTimestamp(0, displayHours(range))[1]

(* C29: with a custom range the span that chooses the label format is the  *)
(* rounded number of hours from the start to the end of the range, so that *)
(* a range of one calendar day gets time-of-day labels, one of 2 to 7      *)
(* calendar days weekday labels and one of 8 or more days month-day        *)
(* labels.                                                                 *)
C29_FormatByCalendarDays ==
  lastReport # Null /\ lastReport[1].by = "go" /\ DaysReported >= 1 =>
    /\ range = lastReport[1].range
    /\ DaysReported = 1 => FormatOfRange = "HH:MM"
    /\ DaysReported \in 2..7 => FormatOfRange = "weekday HH:MM"
    /\ DaysReported >= 8 => FormatOfRange = "month day"

(* C30: in the DateRangeBar a custom range is reported only by Go, with a  *)
(* start and an end date set; clearing reports the preset of 24 hours,     *)
(* empties both date fields and closes the panel; a preset button reports  *)
(* a preset of the list and closes the panel.  The parent holds what was   *)
(* reported last.                                                          *)
C30_ReportsOfTheBar ==
  lastReport # Null =>
    /\ range = lastReport[1].range
    /\ lastReport[1].range.mode = "custom" =>
         /\ lastReport[1].by = "go"
         /\ lastReport[1].startVal # Null
         /\ lastReport[1].endVal # Null
    /\ lastReport[1].by = "clear" =>
         /\ lastReport[1].range = [mode |-> "preset", hours |-> 24]
         /\ lastReport[1].startVal = Null
         /\ lastReport[1].endVal = Null
         /\ lastReport[1].customOpen = FALSE
    /\ lastReport[1].by = "preset" =>
         /\ lastReport[1].range.mode = "preset"
         /\ lastReport[1].range.hours \in {2, 6, 24, 168, 720, 2160, 8760}
         /\ lastReport[1].customOpen = FALSE

(* C30 witness: a custom range was reported by Go and then cleared: the    *)
(* range is the preset of 24 hours, the fields are empty, the panel closed *)
C30_Witness ==
  /\ lastReport # Null
  /\ lastReport[1].by = "clear"
  /\ range = [mode |-> "preset", hours |-> 24]
  /\ startVal = Null
  /\ endVal = Null
  /\ customOpen = FALSE

====
